---- MODULE Spec2Model ----
(***************************************************************************)
(* Model of app.py, the single-file "Author Studio": a Streamlit script    *)
(* over an SQLite file (tables books and chapters), the per-browser        *)
(* session state, and the remote model with its context caches.            *)
(*                                                                         *)
(* One action is one script run in which one button (or the selectbox)     *)
(* fired.  Widget values the user can type before pressing a button        *)
(* (Concept, Outline, Title, Chapter #, the Import box) are inputs of the  *)
(* action.  Remote calls succeed or raise; which one is an input too.      *)
(* The response texts a run only keeps for display (pl_<n>, pg, pt, pto,   *)
(* mres) are not part of the state; the prompts are kept as far as they    *)
(* quote the Bible, the Outline, a chapter text or the manuscript (every   *)
(* text of the model is shorter than the 3000, 5000 and 12000 character    *)
(* windows the prompts cut them to).                                       *)
(*                                                                         *)
(* A text is a sequence of paragraphs, a paragraph a sequence of lines;    *)
(* the empty paragraph stands for a run of whitespace.  A line is a token  *)
(* that stands for LineLen characters.                                     *)
(***************************************************************************)
EXTENDS Naturals, Integers, Sequences, FiniteSets

VARIABLES
    books,           \* table books: row id -> [title, concept, outline]
    chapters,        \* table chapters: set of rows [id, book_id, chapter_num, content, summary]
    chapter_seq,     \* AUTOINCREMENT counter of table chapters
    active_book_id,  \* st.session_state.active_book_id
    cache_name,      \* st.session_state.cache_name: Absent, None or a cache name
    editor_mode,     \* st.session_state.editor_mode
    ed_con,          \* st.session_state.ed_con (the text; EmptyText when the key is absent)
    editor_report,   \* st.session_state.editor_report ("" when the key is absent)
    caches,          \* the provider's context caches: name -> [bible, outline]
    sent,            \* the requests the last script run sent to the model
    call,            \* the last script run's call of get_or_create_cache
    typed,           \* the Concept and Outline text areas as the last run's handler read them
    dbcall,          \* the last script run's call of save_chapter or delete_last_chapter
    txn              \* per browser session: position inside save_chapter

vars == <<books, chapters, chapter_seq, active_book_id, cache_name, editor_mode,
          ed_con, editor_report, caches, sent, call, typed, dbcall, txn>>

(***************************************************************************)
(* Bounds                                                                  *)
(***************************************************************************)
MaxBooks == 2
MaxChap == 2
MaxRowId == 2
MaxCaches == 1
MaxImport == 2
LineLen == 300

(***************************************************************************)
(* Program constants                                                       *)
(***************************************************************************)
ScanMinLen == 500

Absent == "<absent>"
None == "<None>"
NoText == "<not in prompt>"
CacheNames == <<"cachedContents/1", "cachedContents/2", "cachedContents/3",
                "cachedContents/4">>

\* ---- texts ----
EmptyText == << >>
BlankPara == << >>
BlankText == << BlankPara >>
ShortText == << <<"p">> >>
RawShortText == << BlankPara, <<"p">> >>
LongText == << <<"p">>, <<"q">> >>

RECURSIVE ParaSum(_)
ParaSum(t) ==
    IF t = << >> THEN 0
    ELSE (IF Head(t) = BlankPara THEN 1
          ELSE Len(Head(t)) * LineLen + (Len(Head(t)) - 1))
         + ParaSum(Tail(t))

\* len(text): the paragraphs, and a blank line between two of them
TextLen(t) == IF t = << >> THEN 0 ELSE ParaSum(t) + 2 * (Len(t) - 1)

RECURSIVE FlattenParas(_)
FlattenParas(t) == IF t = << >> THEN << >> ELSE Head(t) \o FlattenParas(Tail(t))

IsCleanPara(p) == p # BlankPara

normalize_text(text, mode) ==
    IF text = EmptyText THEN EmptyText
    ELSE LET clean_paragraphs == SelectSeq(text, IsCleanPara)
         IN  IF mode = "tight"
             THEN (IF clean_paragraphs = << >> THEN EmptyText
                   ELSE << FlattenParas(clean_paragraphs) >>)
             ELSE clean_paragraphs

\* ---- summaries ----
NoSummary == [kind |-> "empty", of |-> EmptyText]
SummaryOf(t) == [kind |-> "summary", of |-> t]
ErrorSummary == [kind |-> "error", of |-> EmptyText]

\* ---- requests ----
Request(kind, bible, outline, cache, text, manuscript) ==
    [kind |-> kind, bible |-> bible, outline |-> outline, cache |-> cache,
     text |-> text, manuscript |-> manuscript]

\* generate_summary: what it sends and what it returns; outcome is the
\* remote call's: "ok", "empty" (a response without text) or "fail"
SummaryRequests(chapter_text) ==
    IF chapter_text = EmptyText THEN {}
    ELSE {Request("summary", NoText, NoText, None, chapter_text, << >>)}

generate_summary(chapter_text, outcome) ==
    IF chapter_text = EmptyText THEN NoSummary
    ELSE IF outcome = "ok" THEN SummaryOf(chapter_text)
    ELSE IF outcome = "empty" THEN NoSummary
    ELSE ErrorSummary

Outcomes == {"ok", "empty", "fail"}

\* ---- table chapters ----
RowsOf(rows, book_id) == {r \in rows : r.book_id = book_id}

\* MinRow with ORDER BY id in place of ORDER BY chapter_num
MinRowById(rows) ==
    CHOOSE r \in rows : \A o \in rows : r.id <= o.id

MinRow(rows) ==
    CHOOSE r \in rows : \A o \in rows :
        \/ r.chapter_num < o.chapter_num
        \/ (r.chapter_num = o.chapter_num /\ r.id <= o.id)

RECURSIVE OrderByChapterNum(_)
OrderByChapterNum(rows) ==
    IF rows = {} THEN << >>
    ELSE LET m == MinRow(rows) IN << m >> \o OrderByChapterNum(rows \ {m})

\* the chapters load_active_book returns
load_active_book(rows, book_id) == OrderByChapterNum(RowsOf(rows, book_id))

get_chapters(rows, book_id) == OrderByChapterNum(RowsOf(rows, book_id))

\* SELECT id, summary ... WHERE book_id=? AND chapter_num=?  and fetchone()
Matching(rows, book_id, num) ==
    {r \in rows : r.book_id = book_id /\ r.chapter_num = num}

NoRow == [id |-> 0, summary |-> [kind |-> "empty", of |-> << >>]]

SaveSelect(rows, book_id, num) ==
    LET m == Matching(rows, book_id, num)
    IN  IF m = {} THEN NoRow
        ELSE LET r == CHOOSE r \in m : \A o \in m : r.id <= o.id
             IN  [id |-> r.id, summary |-> r.summary]

\* current_sum = summary if summary else (existing[1] if existing[1] else "")
\* UPDATE chapters SET content=?, summary=? WHERE id=?
SaveUpdate(rows, existing, content, summary) ==
    LET current_sum == IF summary # NoSummary THEN summary ELSE existing.summary
    IN  {IF r.id = existing.id
         THEN [r EXCEPT !.content = content, !.summary = current_sum]
         ELSE r : r \in rows}

\* INSERT INTO chapters (book_id, chapter_num, content, summary)
InsertRow(rows, seq, book_id, num, content, summary) ==
    rows \cup {[id |-> seq + 1, book_id |-> book_id, chapter_num |-> num,
                content |-> content, summary |-> summary]}

\* save_chapter without the existence check: every call inserts
save_chapter_insert_only(rows, seq, book_id, num, content, summary) ==
    [rows |-> InsertRow(rows, seq, book_id, num, content, summary), seq |-> seq + 1]

save_chapter(rows, seq, book_id, num, content, summary) ==
    LET existing == SaveSelect(rows, book_id, num)
    IN  IF existing.id # 0
        THEN [rows |-> SaveUpdate(rows, existing, content, summary), seq |-> seq]
        ELSE [rows |-> InsertRow(rows, seq, book_id, num, content, summary),
              seq |-> seq + 1]

delete_last_chapter(rows, book_id, num) ==
    {r \in rows : ~(r.book_id = book_id /\ r.chapter_num = num)}

\* ---- context caches ----
CacheNamed(cs, name) == {c \in cs : c.name = name}

CacheContent(cs, name) == CHOOSE c \in cs : c.name = name

\* get_or_create_cache whose first except keeps the stale handle (no del)
get_or_create_cache_keeps_handle(cn, cs, bible_text, outline_text, remote) ==
    LET stored == cn # Absent
        refreshed == /\ stored
                     /\ CacheNamed(cs, cn) # {}
                     /\ remote.get
                     /\ remote.update
        created == /\ ~refreshed
                   /\ remote.create
                   /\ Cardinality(cs) < MaxCaches
        new_name == CacheNames[Cardinality(cs) + 1]
    IN  IF refreshed
        THEN [ret |-> cn, cache_name |-> cn, caches |-> cs,
              stale |-> FALSE, attempted |-> FALSE, raised |-> FALSE]
        ELSE IF created
        THEN [ret |-> new_name, cache_name |-> new_name,
              caches |-> cs \cup {[name |-> new_name, bible |-> bible_text,
                                   outline |-> outline_text]},
              stale |-> stored, attempted |-> TRUE, raised |-> FALSE]
        ELSE [ret |-> None, cache_name |-> cn, caches |-> cs,
              stale |-> stored, attempted |-> TRUE, raised |-> FALSE]

\* get_or_create_cache.  remote says which remote calls succeed: get and
\* update of the stored handle, and create.  Both try blocks have a bare
\* except, so no failure leaves the function.
get_or_create_cache(cn, cs, bible_text, outline_text, remote) ==
    LET stored == cn # Absent
        refreshed == /\ stored
                     /\ CacheNamed(cs, cn) # {}
                     /\ remote.get
                     /\ remote.update
        created == /\ ~refreshed
                   /\ remote.create
                   /\ Cardinality(cs) < MaxCaches
        new_name == CacheNames[Cardinality(cs) + 1]
    IN  IF refreshed
        THEN [ret |-> cn, cache_name |-> cn, caches |-> cs,
              stale |-> FALSE, attempted |-> FALSE, raised |-> FALSE]
        ELSE IF created
        THEN [ret |-> new_name, cache_name |-> new_name,
              caches |-> cs \cup {[name |-> new_name, bible |-> bible_text,
                                   outline |-> outline_text]},
              stale |-> stored, attempted |-> TRUE, raised |-> FALSE]
        ELSE [ret |-> None, cache_name |-> Absent, caches |-> cs,
              stale |-> stored, attempted |-> TRUE, raised |-> FALSE]

NoCall == [bible |-> NoText, outline |-> NoText, before |-> Absent, ret |-> Absent,
           stale |-> FALSE, attempted |-> FALSE, raised |-> FALSE, by |-> "none"]

CallOf(by, bible, outline, before, g) ==
    [bible |-> bible, outline |-> outline, before |-> before, ret |-> g.ret,
     stale |-> g.stale, attempted |-> g.attempted, raised |-> g.raised, by |-> by]

\* a failed get leaves update uncalled, a refreshed handle leaves create uncalled
Remotes == {r \in [get : BOOLEAN, update : BOOLEAN, create : BOOLEAN] :
               /\ ~r.get => r.update
               /\ (r.get /\ r.update) => r.create}

\* ---- what a script run derives before the tabs (lines 313-329) ----
active_book == books[active_book_id]
current_title == active_book.title
current_concept == active_book.concept
current_outline == active_book.outline
history_list == load_active_book(chapters, active_book_id)

RECURSIVE FullTextOf(_)
FullTextOf(hist) ==
    IF hist = << >> THEN << >>
    ELSE << [chapter_num |-> Head(hist).chapter_num, content |-> Head(hist).content] >>
         \o FullTextOf(Tail(hist))

full_text == FullTextOf(history_list)

Digits(n) == IF n < 10 THEN 1 ELSE 2

\* len(full_text): each chapter adds "\n\n## Chapter <n>\n\n" and its content
RECURSIVE FullTextLen(_)
FullTextLen(ft) ==
    IF ft = << >> THEN 0
    ELSE 15 + Digits(Head(ft).chapter_num) + TextLen(Head(ft).content)
         + FullTextLen(Tail(ft))

last_raw == IF history_list = << >> THEN EmptyText
            ELSE history_list[Len(history_list)].content

existing_chapters == {r.chapter_num : r \in RowsOf(chapters, active_book_id)}

ExistingContent(num) ==
    LET h == history_list
        i == CHOOSE i \in 1..Len(h) :
                /\ h[i].chapter_num = num
                /\ \A j \in 1..Len(h) : h[j].chapter_num = num => j <= i
    IN  h[i].content

\* ---- inputs ----
Bibles == {[concept |-> "", outline |-> ""],
           [concept |-> "B1", outline |-> "O1"]}
EditTexts == {EmptyText, ShortText, LongText}
ResponseTexts == {EmptyText, BlankText, RawShortText}
Sections == {BlankText, RawShortText}
ChapNums == 1..MaxChap
Sessions == {"s1", "s2"}

FirstBook == [title |-> "My First Book", concept |-> "", outline |-> ""]
Idle == [pc |-> "idle", book_id |-> 0, num |-> 0, content |-> EmptyText,
         summary |-> NoSummary, existing |-> NoRow]

NoTyped == [nc |-> NoText, no |-> NoText]
NoDbCall == [fn |-> "none", book_id |-> 0, num |-> 0, content |-> EmptyText,
             summary |-> NoSummary, existing |-> NoRow]

\* the state after the first script run on a fresh database (lines 151, 226-233, 311)
Init ==
    /\ books = << FirstBook >>
    /\ chapters = {}
    /\ chapter_seq = 0
    /\ active_book_id = 1
    /\ cache_name = Absent
    /\ editor_mode = FALSE
    /\ ed_con = EmptyText
    /\ editor_report = ""
    /\ caches = {}
    /\ sent = {}
    /\ call = NoCall
    /\ typed = NoTyped
    /\ dbcall = NoDbCall
    /\ txn = [s \in Sessions |-> Idle]

\* a run that calls neither the model nor a chapters function
Quiet == /\ sent' = {}
         /\ call' = NoCall
         /\ typed' = NoTyped
         /\ dbcall' = NoDbCall

\* ---- sidebar ----
SelectBook(sel_id) ==
    /\ sel_id \in 1..Len(books)
    /\ sel_id # active_book_id
    /\ active_book_id' = sel_id
    /\ cache_name' = None
    /\ Quiet
    /\ UNCHANGED <<books, chapters, chapter_seq, editor_mode, ed_con, editor_report,
                   caches, txn>>

NewBook(nt) ==
    /\ Len(books) < MaxBooks
    /\ books' = Append(books, [title |-> nt, concept |-> "", outline |-> ""])
    /\ active_book_id' = Len(books) + 1
    /\ Quiet
    /\ UNCHANGED <<chapters, chapter_seq, cache_name, editor_mode, ed_con, editor_report,
                   caches, txn>>

\* the Import loop: section i of the pasted text becomes chapter i unless it
\* normalises to the empty text
RECURSIVE ImportRows(_, _, _, _)
ImportRows(rows, seq, book_id, bodies) ==
    IF bodies = << >> THEN [rows |-> rows, seq |-> seq]
    ELSE LET cn == Len(bodies)
             before == ImportRows(rows, seq, book_id, SubSeq(bodies, 1, cn - 1))
             cl == normalize_text(bodies[cn], "standard")
         IN  IF cl # EmptyText
             THEN [rows |-> InsertRow(before.rows, before.seq, book_id, cn, cl, NoSummary),
                   seq |-> before.seq + 1]
             ELSE before

Import(bodies) ==
    LET kept == {r \in chapters : r.book_id # active_book_id}
        done == ImportRows(kept, chapter_seq, active_book_id, bodies)
    IN  /\ done.seq <= MaxRowId
        /\ chapters' = done.rows
        /\ chapter_seq' = done.seq
        /\ Quiet
        /\ UNCHANGED <<books, active_book_id, cache_name, editor_mode, ed_con,
                       editor_report, caches, txn>>

NeedsSummary(r) == r.summary.kind = "empty"

Backfill(outcome) ==
    LET rows == RowsOf(chapters, active_book_id)
    IN  /\ chapters' = {IF r \in rows /\ NeedsSummary(r)
                        THEN [r EXCEPT !.summary = generate_summary(r.content, outcome[r.id])]
                        ELSE r : r \in chapters}
        /\ sent' = UNION {SummaryRequests(r.content) : r \in {x \in rows : NeedsSummary(x)}}
        /\ call' = NoCall
        /\ typed' = NoTyped
        /\ dbcall' = NoDbCall
        /\ UNCHANGED <<books, chapter_seq, active_book_id, cache_name, editor_mode, ed_con,
                       editor_report, caches, txn>>

ResetDB ==
    /\ books' = << FirstBook >>
    /\ chapters' = {}
    /\ chapter_seq' = 0
    /\ active_book_id' = 1
    /\ cache_name' = Absent
    /\ editor_mode' = FALSE
    /\ ed_con' = EmptyText
    /\ editor_report' = ""
    /\ Quiet
    /\ UNCHANGED <<caches, txn>>

\* ---- tab 1 ----
SaveBible(nti, nc, no) ==
    /\ nc # current_concept \/ no # current_outline \/ nti # current_title
    /\ books' = [books EXCEPT ![active_book_id] =
                    [title |-> nti, concept |-> nc, outline |-> no]]
    /\ sent' = {}
    /\ call' = NoCall
    /\ typed' = [nc |-> nc, no |-> no]
    /\ dbcall' = NoDbCall
    /\ UNCHANGED <<chapters, chapter_seq, active_book_id, cache_name, editor_mode, ed_con,
                   editor_report, caches, txn>>

\* ---- tab 2 ----
LoadChapter(chap_num) ==
    /\ chap_num \in existing_chapters
    /\ ~editor_mode
    /\ ed_con' = ExistingContent(chap_num)
    /\ editor_mode' = TRUE
    /\ Quiet
    /\ UNCHANGED <<books, chapters, chapter_seq, active_book_id, cache_name,
                   editor_report, caches, txn>>

\* what a handler sends after get_or_create_cache returned g: through the
\* cache when it got a name and can fetch it (get2), else nothing; directly
\* to the base model, with the inline prompt, when it got None
RequestsAfter(g, get2, cached, direct) ==
    IF g.ret # None THEN (IF get2 THEN {cached} ELSE {}) ELSE {direct}

AutoFetch(nc, no, remote, get2) ==
    LET g == get_or_create_cache(cache_name, caches, nc, no, remote)
    IN  /\ cache_name' = g.cache_name
        /\ caches' = g.caches
        /\ call' = CallOf("plan", nc, no, cache_name, g)
        /\ typed' = [nc |-> nc, no |-> no]
        /\ sent' = RequestsAfter(g, get2,
                       Request("plan", NoText, NoText, g.ret, EmptyText, << >>),
                       Request("plan", NoText, no, None, EmptyText, << >>))
        /\ dbcall' = NoDbCall
        /\ UNCHANGED <<books, chapters, chapter_seq, active_book_id, editor_mode, ed_con,
                       editor_report, txn>>

\* WriteChapter whose fallback prompt quotes the outline only, as Auto-Fetch's does
WriteChapter_outline_only(nc, no, remote, get2, ok, text) ==
    LET g == get_or_create_cache(cache_name, caches, nc, no, remote)
        reqs == RequestsAfter(g, get2,
                    Request("write", NoText, NoText, g.ret, last_raw, << >>),
                    Request("write", NoText, no, None, last_raw, << >>))
        written == reqs # {} /\ ok /\ text # EmptyText
    IN  /\ ~editor_mode
        /\ cache_name' = g.cache_name
        /\ caches' = g.caches
        /\ call' = CallOf("write", nc, no, cache_name, g)
        /\ typed' = [nc |-> nc, no |-> no]
        /\ sent' = reqs
        /\ ed_con' = IF written THEN normalize_text(text, "standard") ELSE ed_con
        /\ editor_mode' = written
        /\ dbcall' = NoDbCall
        /\ UNCHANGED <<books, chapters, chapter_seq, active_book_id, editor_report, txn>>

WriteChapter(nc, no, remote, get2, ok, text) ==
    LET g == get_or_create_cache(cache_name, caches, nc, no, remote)
        reqs == RequestsAfter(g, get2,
                    Request("write", NoText, NoText, g.ret, last_raw, << >>),
                    Request("write", nc, no, None, last_raw, << >>))
        written == reqs # {} /\ ok /\ text # EmptyText
    IN  /\ ~editor_mode
        /\ cache_name' = g.cache_name
        /\ caches' = g.caches
        /\ call' = CallOf("write", nc, no, cache_name, g)
        /\ typed' = [nc |-> nc, no |-> no]
        /\ sent' = reqs
        /\ ed_con' = IF written THEN normalize_text(text, "standard") ELSE ed_con
        /\ editor_mode' = written
        /\ dbcall' = NoDbCall
        /\ UNCHANGED <<books, chapters, chapter_seq, active_book_id, editor_report, txn>>

EditText(et) ==
    /\ editor_mode
    /\ et # ed_con
    /\ ed_con' = et
    /\ Quiet
    /\ UNCHANGED <<books, chapters, chapter_seq, active_book_id, cache_name, editor_mode,
                   editor_report, caches, txn>>

Save(chap_num, outcome) ==
    LET et == ed_con
        sm == generate_summary(et, outcome)
        saved == save_chapter(chapters, chapter_seq, active_book_id, chap_num, et, sm)
    IN  /\ editor_mode
        /\ saved.seq <= MaxRowId
        /\ chapters' = saved.rows
        /\ chapter_seq' = saved.seq
        /\ editor_mode' = FALSE
        /\ ed_con' = EmptyText
        /\ sent' = SummaryRequests(et)
        /\ call' = NoCall
        /\ typed' = NoTyped
        /\ dbcall' = [fn |-> "save_chapter", book_id |-> active_book_id, num |-> chap_num,
                      content |-> et, summary |-> sm,
                      existing |-> SaveSelect(chapters, active_book_id, chap_num)]
        /\ UNCHANGED <<books, active_book_id, cache_name, editor_report, caches, txn>>

Discard ==
    /\ editor_mode
    /\ editor_mode' = FALSE
    /\ ed_con' = EmptyText
    /\ Quiet
    /\ UNCHANGED <<books, chapters, chapter_seq, active_book_id, cache_name,
                   editor_report, caches, txn>>

UndoLastChapter ==
    LET hist == get_chapters(chapters, active_book_id)
    IN  /\ history_list # << >>
        /\ ~editor_mode
        /\ chapters' = delete_last_chapter(chapters, active_book_id, Len(hist))
        /\ sent' = {}
        /\ call' = NoCall
        /\ typed' = NoTyped
        /\ dbcall' = [NoDbCall EXCEPT !.fn = "delete_last_chapter",
                                      !.book_id = active_book_id, !.num = Len(hist)]
        /\ UNCHANGED <<books, chapter_seq, active_book_id, cache_name, editor_mode, ed_con,
                       editor_report, caches, txn>>

\* ---- tab 4 ----
AnalyzeDNA(nc, no) ==
    /\ sent' = {Request("dna", nc, no, None, EmptyText, << >>)}
    /\ call' = NoCall
    /\ typed' = [nc |-> nc, no |-> no]
    /\ dbcall' = NoDbCall
    /\ UNCHANGED <<books, chapters, chapter_seq, active_book_id, cache_name, editor_mode,
                   ed_con, editor_report, caches, txn>>

GeneratePackage ==
    /\ sent' = {Request("package", NoText, NoText, None, EmptyText, full_text)}
    /\ call' = NoCall
    /\ typed' = NoTyped
    /\ dbcall' = NoDbCall
    /\ UNCHANGED <<books, chapters, chapter_seq, active_book_id, cache_name, editor_mode,
                   ed_con, editor_report, caches, txn>>

\* ---- tab 5 ----
TooShort(ft) == ft = << >> \/ FullTextLen(ft) < ScanMinLen

RunScan(remote, get2, resp) ==
    LET g == get_or_create_cache(cache_name, caches, current_concept, current_outline,
                                 remote)
        reqs == RequestsAfter(g, get2,
                    Request("scan", current_concept, current_outline, g.ret,
                            EmptyText, full_text),
                    Request("scan", current_concept, current_outline, None,
                            EmptyText, full_text))
    IN  IF TooShort(full_text)
        THEN /\ Quiet
             /\ UNCHANGED <<books, chapters, chapter_seq, active_book_id, cache_name,
                            editor_mode, ed_con, editor_report, caches, txn>>
        ELSE /\ cache_name' = g.cache_name
             /\ caches' = g.caches
             /\ call' = CallOf("scan", current_concept, current_outline, cache_name, g)
             /\ typed' = NoTyped
             /\ sent' = reqs
             /\ editor_report' = IF reqs # {} /\ resp = "ok" THEN "R" ELSE editor_report
             /\ dbcall' = NoDbCall
             /\ UNCHANGED <<books, chapters, chapter_seq, active_book_id, editor_mode,
                            ed_con, txn>>

\* ---- save_chapter, statement by statement, in two browser sessions ----
ConcSelect(s, num, content, summary) ==
    /\ txn[s].pc = "idle"
    /\ txn' = [txn EXCEPT ![s] =
                  [pc |-> "selected", book_id |-> active_book_id, num |-> num,
                   content |-> content, summary |-> summary,
                   existing |-> SaveSelect(chapters, active_book_id, num)]]
    /\ UNCHANGED <<books, chapters, chapter_seq, active_book_id, cache_name, editor_mode,
                   ed_con, editor_report, caches, sent, call, typed, dbcall>>

ConcUpdate(s) ==
    /\ txn[s].pc = "selected"
    /\ txn[s].existing.id # 0
    /\ chapters' = SaveUpdate(chapters, txn[s].existing, txn[s].content, txn[s].summary)
    /\ txn' = [txn EXCEPT ![s] = Idle]
    /\ UNCHANGED <<books, chapter_seq, active_book_id, cache_name, editor_mode, ed_con,
                   editor_report, caches, sent, call, typed, dbcall>>

ConcInsert(s) ==
    /\ txn[s].pc = "selected"
    /\ txn[s].existing.id = 0
    /\ chapter_seq < MaxRowId
    /\ chapters' = InsertRow(chapters, chapter_seq, txn[s].book_id, txn[s].num,
                             txn[s].content, txn[s].summary)
    /\ chapter_seq' = chapter_seq + 1
    /\ txn' = [txn EXCEPT ![s] = Idle]
    /\ UNCHANGED <<books, active_book_id, cache_name, editor_mode, ed_con, editor_report,
                   caches, sent, call, typed, dbcall>>

(***************************************************************************)
(* The whole studio, one browser session.                                  *)
(***************************************************************************)
Next ==
    \/ \E sel_id \in 1..MaxBooks : SelectBook(sel_id)
    \/ NewBook("Untitled")
    \/ \E n \in 0..MaxImport : \E bodies \in [1..n -> Sections] : Import(bodies)
    \/ \E outcome \in [{r.id : r \in RowsOf(chapters, active_book_id)} -> Outcomes] :
          Backfill(outcome)
    \/ ResetDB
    \/ \E b \in Bibles : SaveBible(current_title, b.concept, b.outline)
    \/ \E chap_num \in ChapNums : LoadChapter(chap_num)
    \/ \E b \in Bibles : \E remote \in Remotes : \E get2 \in BOOLEAN :
          AutoFetch(b.concept, b.outline, remote, get2)
    \/ \E b \in Bibles : \E remote \in Remotes : \E get2 \in BOOLEAN :
          \E ok \in BOOLEAN : \E text \in ResponseTexts :
             WriteChapter(b.concept, b.outline, remote, get2, ok, text)
    \/ \E et \in EditTexts : EditText(et)
    \/ \E chap_num \in ChapNums : \E outcome \in Outcomes : Save(chap_num, outcome)
    \/ Discard
    \/ UndoLastChapter
    \/ \E b \in Bibles : AnalyzeDNA(b.concept, b.outline)
    \/ GeneratePackage
    \/ \E remote \in Remotes : \E get2 \in BOOLEAN : \E resp \in Outcomes :
          RunScan(remote, get2, resp)

Spec == Init /\ [][Next]_vars

(***************************************************************************)
(* The library and the editor: every operation on the chapters table, with *)
(* every text, section and summary outcome.  The provider's cache service  *)
(* is down (every remote cache call fails) and the Bible text areas are    *)
(* left as stored: no operation on the chapters table reads either.        *)
(***************************************************************************)
CacheDown == [get |-> FALSE, update |-> TRUE, create |-> FALSE]

NextLibrary ==
    \/ \E sel_id \in 1..MaxBooks : SelectBook(sel_id)
    \/ NewBook("Untitled")
    \/ \E n \in 0..MaxImport : \E bodies \in [1..n -> Sections] : Import(bodies)
    \/ \E outcome \in [{r.id : r \in RowsOf(chapters, active_book_id)} -> Outcomes] :
          Backfill(outcome)
    \/ ResetDB
    \/ \E chap_num \in ChapNums : LoadChapter(chap_num)
    \/ \E ok \in BOOLEAN : \E text \in ResponseTexts :
          WriteChapter(current_concept, current_outline, CacheDown, FALSE, ok, text)
    \/ \E et \in EditTexts : EditText(et)
    \/ \E chap_num \in ChapNums : \E outcome \in Outcomes : Save(chap_num, outcome)
    \/ Discard
    \/ UndoLastChapter

SpecLibrary == Init /\ [][NextLibrary]_vars

(***************************************************************************)
(* The remote side: every operation that sends a request or touches the    *)
(* context cache, with every Bible input and every remote failure.  The    *)
(* manuscript is built from one text: sections and responses are           *)
(* RawShortText and every summary request succeeds.                        *)
(***************************************************************************)
NextRemote ==
    \/ \E sel_id \in 1..MaxBooks : SelectBook(sel_id)
    \/ NewBook("Untitled")
    \/ \E n \in 0..MaxImport : Import([i \in 1..n |-> RawShortText])
    \/ Backfill([id \in {r.id : r \in RowsOf(chapters, active_book_id)} |-> "ok"])
    \/ ResetDB
    \/ \E b \in Bibles : SaveBible(current_title, b.concept, b.outline)
    \/ \E b \in Bibles : \E remote \in Remotes : \E get2 \in BOOLEAN :
          AutoFetch(b.concept, b.outline, remote, get2)
    \/ \E b \in Bibles : \E remote \in Remotes : \E get2 \in BOOLEAN :
          WriteChapter(b.concept, b.outline, remote, get2, TRUE, RawShortText)
    \/ \E chap_num \in ChapNums : Save(chap_num, "ok")
    \/ Discard
    \/ UndoLastChapter
    \/ \E b \in Bibles : AnalyzeDNA(b.concept, b.outline)
    \/ GeneratePackage
    \/ \E remote \in Remotes : \E get2 \in BOOLEAN : \E resp \in Outcomes :
          RunScan(remote, get2, resp)

SpecRemote == Init /\ [][NextRemote]_vars

(***************************************************************************)
(* Two browser sessions on the same database file, each inside             *)
(* save_chapter for the active book: the SELECT and the UPDATE or INSERT   *)
(* are separate statements, and the table has no unique constraint.        *)
(***************************************************************************)
NextConc ==
    \/ \E s \in Sessions : \E num \in ChapNums : \E content \in {ShortText, LongText} :
          \E summary \in {NoSummary, SummaryOf(content)} :
             ConcSelect(s, num, content, summary)
    \/ \E s \in Sessions : ConcUpdate(s)
    \/ \E s \in Sessions : ConcInsert(s)

SpecConc == Init /\ [][NextConc]_vars

(***************************************************************************)
(* Claims                                                                  *)
(***************************************************************************)
\* the Bible texts a request carries: the one quoted in its prompt and the
\* one held by the cache it goes through; the empty text is part of any prompt
BibleTextsOf(r) ==
    {r.bible} \cup (IF r.cache # None /\ CacheNamed(caches, r.cache) # {}
                    THEN {CacheContent(caches, r.cache).bible} ELSE {})

Carries(r, bible) == bible = "" \/ bible \in BibleTextsOf(r)

\* C1 as stated: every request the app sends carries the Bible text of the
\* active book (as stored, or as the Concept text area holds it), in the
\* prompt or through the attached cache.
C1_EveryRequestCarriesBible ==
    \A r \in sent :
        \/ Carries(r, current_concept)
        \/ (typed.nc # NoText /\ Carries(r, typed.nc))

\* C1 as amended: the prompt of Write / Re-Write Chapter on the uncached
\* path and of Analyze DNA quotes the Concept text area, the prompt of Full
\* Manuscript Scan quotes the stored concept; the Auto-Fetch Plan, summary
\* and Generate Package prompts quote no Bible text, and a Write request
\* through the cache quotes none either and goes through the session's cache.
C1_BibleInPromptByKind ==
    \A r \in sent :
        /\ r.kind = "write" =>
              IF r.cache = None THEN r.bible = typed.nc
              ELSE r.bible = NoText /\ r.cache = cache_name
        /\ r.kind = "dna" => r.bible = typed.nc /\ r.cache = None
        /\ r.kind = "scan" => r.bible = current_concept
        /\ r.kind = "plan" => r.bible = NoText
        /\ r.kind \in {"summary", "package"} => r.bible = NoText /\ r.cache = None

C1_Witness ==
    \E r \in sent : r.kind = "write" /\ r.cache = None /\ r.bible = "B1"
                    /\ current_concept = ""

\* C2: a request sent through the cache named by session_state.cache_name
\* finds in that cache the bible and outline text that the handler passed to
\* get_or_create_cache.
C2_CacheHoldsPassedBible ==
    \A r \in sent :
        r.cache # None =>
            /\ CacheContent(caches, r.cache).bible = call.bible
            /\ CacheContent(caches, r.cache).outline = call.outline

\* C3: get_or_create_cache never raises; a stored handle that cannot be
\* fetched or refreshed is removed and a create is attempted; a returned name
\* is session_state.cache_name and names a cache; on None no cache_name is
\* left and the handler sends its request directly to the base model.
C3_CacheHelperFallsBack ==
    call.by # "none" =>
        /\ ~call.raised
        /\ call.stale => (call.attempted /\ cache_name # call.before)
        /\ call.ret # None =>
              (cache_name = call.ret /\ CacheNamed(caches, call.ret) # {})
        /\ call.ret = None =>
              /\ cache_name = Absent
              /\ sent # {}
              /\ \A r \in sent : r.kind = call.by /\ r.cache = None

C3_Witness ==
    /\ call.by = "scan"
    /\ call.ret = None
    /\ call.stale
    /\ call.before \notin {Absent, None}

\* C4: a scan request quotes the active book's stored concept and outline
\* and every chapter of the active book in ascending chapter_num order, and
\* is sent only for a manuscript of at least 500 characters; the stored
\* editor report changes only in a run that sent a scan request (or is
\* cleared by Reset DB).
ScanQuotesManuscript(r) ==
    LET m == r.manuscript
        rows == RowsOf(chapters, active_book_id)
    IN  /\ r.bible = current_concept
        /\ r.outline = current_outline
        /\ Len(m) = Cardinality(rows)
        /\ \A x \in rows : \E i \in 1..Len(m) :
              m[i].chapter_num = x.chapter_num /\ m[i].content = x.content
        /\ \A i \in 1..Len(m) : \A j \in 1..Len(m) :
              i < j => m[i].chapter_num <= m[j].chapter_num
        /\ m # << >>
        /\ FullTextLen(m) >= ScanMinLen

C4_ScanSendsWholeManuscript ==
    /\ [](\A r \in sent : r.kind = "scan" => ScanQuotesManuscript(r))
    /\ [][editor_report' # editor_report =>
            (editor_report' = "" \/ \E r \in sent' : r.kind = "scan")]_vars

C4_Witness ==
    \E r \in sent :
        /\ r.kind = "scan"
        /\ r.cache # None
        /\ Len(r.manuscript) = 2
        /\ \E x \in RowsOf(chapters, active_book_id) :
              \E y \in RowsOf(chapters, active_book_id) :
                 x.chapter_num < y.chapter_num /\ x.id > y.id

\* C5: save_chapter updates the row of (book_id, num) in place when there is
\* one and adds exactly one row otherwise; afterwards, when at most one row
\* existed, exactly one exists and holds the content; every other row is
\* unchanged; and no book ever has two rows with the same chapter_num.
NoDuplicateChapters ==
    \A r1 \in chapters : \A r2 \in chapters :
        (r1.book_id = r2.book_id /\ r1.chapter_num = r2.chapter_num) => r1 = r2

UpsertEffect(before, after, c) ==
    LET old == Matching(before, c.book_id, c.num)
        new == Matching(after, c.book_id, c.num)
    IN  /\ old # {} => Cardinality(after) = Cardinality(before)
        /\ old = {} => Cardinality(after) = Cardinality(before) + 1
        /\ Cardinality(old) <= 1 =>
              (Cardinality(new) = 1 /\ \A r \in new : r.content = c.content)
        /\ before \ old = after \ new

C5_SaveChapterIsUpsert ==
    /\ []NoDuplicateChapters
    /\ [][dbcall'.fn = "save_chapter" => UpsertEffect(chapters, chapters', dbcall')]_vars

C5_Witness ==
    /\ dbcall.fn = "save_chapter"
    /\ dbcall.existing.id # 0
    /\ \E r \in chapters : r.book_id # dbcall.book_id

\* C6: when Save updates an existing chapter, an empty summary argument
\* keeps the stored summary and a non-empty one replaces it, and the stored
\* summary afterwards is the previous one or a summary of the saved text.
C6_SummaryKeptOrOfSavedText ==
    (dbcall.fn = "save_chapter" /\ dbcall.existing.id # 0) =>
        \A r \in chapters :
            r.id = dbcall.existing.id =>
                /\ r.summary = IF dbcall.summary = NoSummary
                               THEN dbcall.existing.summary ELSE dbcall.summary
                /\ r.summary \in {dbcall.existing.summary, SummaryOf(r.content)}

\* C7: Undo Last Added Chapter removes exactly the active book's row with
\* the highest chapter_num and leaves every other row unchanged.
C7_UndoRemovesLastChapter ==
    [][dbcall'.fn = "delete_last_chapter" =>
          \E l \in RowsOf(chapters, active_book_id) :
              /\ \A o \in RowsOf(chapters, active_book_id) : o.chapter_num <= l.chapter_num
              /\ chapters' = chapters \ {l}]_vars

\* C8: with two sessions interleaving their statements, there is still at
\* most one row per (book_id, chapter_num).
C8_OneRowPerChapter ==
    \A b \in 1..Len(books) : \A n \in ChapNums :
        Cardinality(Matching(chapters, b, n)) <= 1

====
